---------------------------- MODULE Spec2Model ----------------------------
(***************************************************************************)
(* Model of lighthouse-core/audits/byte-efficiency/unused-javascript.js:   *)
(* the coverage decomposition (findUsedAndUnused), the per-script waste    *)
(* computation (computeWaste) and the cross-sample aggregation (audit_).   *)
(*                                                                         *)
(* JavaScript numbers that come out of a division are modelled as exact    *)
(* fractions [num, den] with den >= 0: den = 0 stands for +Infinity        *)
(* (num > 0), -Infinity (num < 0) and NaN (num = 0), which is what IEEE    *)
(* division by zero produces.  Rounding error of binary floating point is  *)
(* not modelled.                                                           *)
(***************************************************************************)
EXTENDS Integers, Sequences, FiniteSets, TLC

VARIABLES
    pc,              \* position of the modelled call
    ranges,          \* the array handed to findUsedAndUnused
    results,         \* the {used, unused} pair findUsedAndUnused returned
    script,          \* computeWaste: its script argument
    networkRecord,   \* computeWaste: its networkRecord argument
    waste,           \* computeWaste: the object it returned
    JsUsage,         \* audit_: artifacts.JsUsage
    networkRecords,  \* audit_: its networkRecords argument
    index,           \* audit_: position of the reduce over JsUsage
    resultsMap,      \* audit_: the Map built by the reduce, in insertion order
    auditResults     \* audit_: the results array it returned

vars == <<pc, ranges, results, script, networkRecord, waste,
          JsUsage, networkRecords, index, resultsMap, auditResults>>

(***************************************************************************)
(* Bounds of the model.                                                    *)
(***************************************************************************)
MaxOffset == 4
MaxLen == 4
MaxFunctions == 3
MaxScripts == 3
MaxRecords == 2
MaxRanges == 2

IGNORE_THRESHOLD_IN_BYTES == 2048

(***************************************************************************)
(* Ranges.                                                                 *)
(***************************************************************************)
\* A coverage range as the protocol reports it.
RawRange(s, e, c) == [startOffset |-> s, endOffset |-> e, count |-> c]

\* The object computeWaste pushes for one protocol range.
MakeRange(range) ==
    LET isUsed == range.count > 0
        span == range.endOffset - range.startOffset
    IN  [isUsed |-> isUsed, span |-> span,
         used |-> IF isUsed THEN span ELSE 0,
         unused |-> IF isUsed THEN 0 ELSE span,
         startOffset |-> range.startOffset, endOffset |-> range.endOffset,
         count |-> range.count]

\* The comparator of ranges.sort: negative when rangeA goes first.
CompareRanges(rangeA, rangeB) ==
    IF rangeA.startOffset - rangeB.startOffset # 0
    THEN rangeA.startOffset - rangeB.startOffset
    ELSE rangeB.endOffset - rangeA.endOffset

Zero == [used |-> 0, unused |-> 0]

_add(objA, objB) ==
    [used |-> objA.used + objB.used, unused |-> objA.unused + objB.unused]

\* ranges.slice(from - 1, to) in 1-based indices: elements from..to.
Slice(s, from, to) == SubSeq(s, from, to)

\* Mutant of ScanEndIndex: the scan does not move.
ScanEndIndexNone(rs, firstRange, endIndex) == endIndex

\* Mutant of ScanEndIndex: the scan stops after the first nested range.
ScanEndIndexOne(rs, firstRange, endIndex) == endIndex + 1

\* The while loop: first index (1-based) past firstRange whose range does not
\* start before firstRange.endOffset, or Len + 1.
RECURSIVE ScanEndIndex(_, _, _)
ScanEndIndex(rs, firstRange, endIndex) ==
    IF endIndex <= Len(rs) /\ rs[endIndex].startOffset < firstRange.endOffset
    THEN ScanEndIndex(rs, firstRange, endIndex + 1)
    ELSE endIndex

\* spanningRanges.reduce((max, next) => max.endOffset >= next.endOffset ? max : next)
RECURSIVE ReduceMax(_, _, _)
ReduceMax(rs, max, i) ==
    IF i > Len(rs) THEN max
    ELSE ReduceMax(rs, IF max.endOffset >= rs[i].endOffset THEN max ELSE rs[i], i + 1)

\* Mutant of LatestEnd: the first spanning range instead of the one ending last.
LatestEndFirst(spanningRanges) == spanningRanges[1]

LatestEnd(spanningRanges) == ReduceMax(spanningRanges, spanningRanges[1], 2)

\* Mutant of Gap: the gap between two siblings is not counted.
GapDropped(firstRange, secondRange) == [used |-> 0, unused |-> 0]

\* {used: secondRange.startOffset - firstRange.endOffset, unused: 0}
Gap(firstRange, secondRange) ==
    [used |-> secondRange.startOffset - firstRange.endOffset, unused |-> 0]

\* Mutant of NextStart: without the fallback to firstRange.endOffset.
NextStartNoFallback(restOfRanges, firstRange) ==
    IF Len(restOfRanges) > 0 THEN restOfRanges[1].startOffset ELSE 0

\* (restOfRanges[0] && restOfRanges[0].startOffset) || firstRange.endOffset:
\* an absent element and a startOffset of 0 are both falsy.
NextStart(restOfRanges, firstRange) ==
    IF Len(restOfRanges) > 0 /\ restOfRanges[1].startOffset # 0
    THEN restOfRanges[1].startOffset
    ELSE firstRange.endOffset

RECURSIVE findUsedAndUnused(_)
findUsedAndUnused(rs) ==
    IF Len(rs) = 0 THEN Zero
    ELSE IF Len(rs) = 1 THEN [used |-> rs[1].used, unused |-> rs[1].unused]
    ELSE
      LET firstRange == rs[1]
          secondRange == rs[2]
      IN  IF secondRange.startOffset >= firstRange.endOffset
          THEN _add(_add(firstRange, Gap(firstRange, secondRange)),
                    findUsedAndUnused(Tail(rs)))
          ELSE
            LET endIndex == ScanEndIndex(rs, firstRange, 2)
                spanningRanges == Slice(rs, 2, endIndex - 1)
                restOfRanges == Slice(rs, endIndex, Len(rs))
            IN  IF firstRange.isUsed
                THEN
                  LET earliestStart == secondRange.startOffset
                      latestEnd == LatestEnd(spanningRanges).endOffset
                      nextStart == NextStart(restOfRanges, firstRange)
                      leftEdge == [used |-> earliestStart - firstRange.startOffset,
                                   unused |-> 0]
                      rightEdge == [used |-> nextStart - latestEnd, unused |-> 0]
                      inner == findUsedAndUnused(spanningRanges)
                      rest == findUsedAndUnused(restOfRanges)
                  IN  _add(_add(leftEdge, rightEdge), _add(inner, rest))
                ELSE _add(firstRange, findUsedAndUnused(restOfRanges))

\* The call findUsedAndUnused(rs) takes the nested branch.
NestedCase(rs) == Len(rs) >= 2 /\ rs[2].startOffset < rs[1].endOffset

\* spanningRanges and restOfRanges of the nested branch.
SpanningRanges(rs) == Slice(rs, 2, ScanEndIndex(rs, rs[1], 2) - 1)
RestOfRanges(rs) == Slice(rs, ScanEndIndex(rs, rs[1], 2), Len(rs))

\* The arguments of the recursive calls that the call findUsedAndUnused(rs)
\* makes itself.
RecursiveCalls(rs) ==
    IF Len(rs) <= 1 THEN {}
    ELSE IF ~NestedCase(rs) THEN {Tail(rs)}
    ELSE IF rs[1].isUsed THEN {SpanningRanges(rs), RestOfRanges(rs)}
    ELSE {RestOfRanges(rs)}

\* The arguments of the calls at recursion depth d below findUsedAndUnused(rs).
RECURSIVE CallsAtDepth(_, _)
CallsAtDepth(rs, d) ==
    IF d = 0 THEN {rs}
    ELSE UNION {RecursiveCalls(c) : c \in CallsAtDepth(rs, d - 1)}

\* The used values of every gap, leftEdge and rightEdge object that the call
\* findUsedAndUnused(rs) and its recursive calls create.
RECURSIVE EdgesAdded(_)
EdgesAdded(rs) ==
    IF Len(rs) <= 1 THEN {}
    ELSE
      LET firstRange == rs[1]
          secondRange == rs[2]
      IN  IF secondRange.startOffset >= firstRange.endOffset
          THEN {Gap(firstRange, secondRange).used} \cup EdgesAdded(Tail(rs))
          ELSE
            LET endIndex == ScanEndIndex(rs, firstRange, 2)
                spanningRanges == Slice(rs, 2, endIndex - 1)
                restOfRanges == Slice(rs, endIndex, Len(rs))
            IN  IF firstRange.isUsed
                THEN {secondRange.startOffset - firstRange.startOffset,
                      NextStart(restOfRanges, firstRange)
                          - LatestEnd(spanningRanges).endOffset}
                     \cup EdgesAdded(spanningRanges) \cup EdgesAdded(restOfRanges)
                ELSE EdgesAdded(restOfRanges)

(***************************************************************************)
(* JavaScript numbers produced by a division: exact fractions num/den in   *)
(* lowest terms with den > 0; den = 0 is Infinity (num = 1), -Infinity     *)
(* (num = -1) or NaN (num = 0).                                            *)
(***************************************************************************)
Abs(n) == IF n < 0 THEN -n ELSE n
Sign(n) == IF n > 0 THEN 1 ELSE IF n < 0 THEN -1 ELSE 0

RECURSIVE GCD(_, _)
GCD(a, b) == IF b = 0 THEN a ELSE GCD(b, a % b)

\* The number n / d for integers n and d, as IEEE division gives it.
JsDiv(n, d) ==
    IF d = 0 THEN [num |-> Sign(n), den |-> 0]
    ELSE LET g == GCD(Abs(n), Abs(d))
         IN  [num |-> (Sign(d) * n) \div g, den |-> Abs(d) \div g]

JsInt(n) == [num |-> n, den |-> 1]
IsNaN(x) == x.den = 0 /\ x.num = 0
IsFinite(x) == x.den > 0

\* x || 0: NaN and 0 are falsy.
OrZero(x) == IF x.num = 0 THEN JsInt(0) ELSE x

\* n * x for an integer n.
JsTimes(n, x) ==
    IF x.den = 0 THEN [num |-> Sign(n) * x.num, den |-> 0]
    ELSE JsDiv(n * x.num, x.den)

\* Math.round: the nearest integer, a tie going up; Infinity and NaN stay.
MathRound(x) ==
    IF x.den = 0 THEN x
    ELSE JsInt((2 * x.num + x.den) \div (2 * x.den))

\* a > b, which is false when either side is NaN.
JsGreater(a, b) ==
    /\ ~IsNaN(a)
    /\ ~IsNaN(b)
    /\ IF IsFinite(a) /\ IsFinite(b) THEN a.num * b.den > b.num * a.den
       ELSE IF IsFinite(a) THEN b.num < 0
       ELSE IF IsFinite(b) THEN a.num > 0
       ELSE a.num > b.num

(***************************************************************************)
(* computeWaste.                                                           *)
(***************************************************************************)
\* URL.getDisplayName (lib/url-shim.js): the name shown for a URL keeps its
\* path and drops its origin.
getDisplayName(url) == url.path

\* func.ranges.forEach: the objects pushed for one function, in order.
FunctionRanges(func) == [i \in DOMAIN func.ranges |-> MakeRange(func.ranges[i])]

\* script.functions.forEach: the flat array of all functions' ranges.
RECURSIVE FlattenFunctions(_)
FlattenFunctions(functions) ==
    IF Len(functions) = 0 THEN <<>>
    ELSE FunctionRanges(Head(functions)) \o FlattenFunctions(Tail(functions))

\* Mutant of FunctionIsUsed: only the first range of the function decides.
FunctionIsUsedFirst(func) == Len(func.ranges) > 0 /\ func.ranges[1].count > 0

\* functionIsUsed after the inner forEach.
FunctionIsUsed(func) == \E i \in DOMAIN func.ranges : func.ranges[i].count > 0

NumUnusedFunctions(functions) ==
    Cardinality({i \in DOMAIN functions : ~FunctionIsUsed(functions[i])})

\* r placed into a sorted array behind every element that does not compare
\* greater than it (a stable insertion).
InsertSorted(sorted, r) ==
    LET before == {i \in DOMAIN sorted : CompareRanges(sorted[i], r) <= 0}
        k == Cardinality(before)
    IN  SubSeq(sorted, 1, k) \o <<r>> \o SubSeq(sorted, k + 1, Len(sorted))

\* ranges.sort(comparator): a stable sort.
RECURSIVE SortRanges(_)
SortRanges(rs) ==
    IF Len(rs) = 0 THEN <<>>
    ELSE InsertSorted(SortRanges(SubSeq(rs, 1, Len(rs) - 1)), rs[Len(rs)])

\* The array computeWaste hands to findUsedAndUnused.
SortedRangesOf(scr) == SortRanges(FlattenFunctions(scr.functions))

\* Mutant of WastedRatio: the unused bytes over the used bytes.
WastedRatioOverUsed(res) == OrZero(JsDiv(res.unused, res.used))

\* (results.unused / (results.unused + results.used)) || 0
WastedRatio(res) == OrZero(JsDiv(res.unused, res.unused + res.used))

\* The object computeWaste returns once findUsedAndUnused has returned res.
WasteOf(scr, record, res) ==
    LET url == getDisplayName(scr.url)
        wastedRatio == WastedRatio(res)
        totalBytes == record.transferSize
        wastedBytes == MathRound(JsTimes(totalBytes, wastedRatio))
    IN  [url |-> url,
         totalBytes |-> totalBytes,
         wastedBytes |-> wastedBytes,
         wastedPercent |-> JsTimes(100, wastedRatio),
         numUnused |-> NumUnusedFunctions(scr.functions)]

computeWaste(scr, record) ==
    WasteOf(scr, record, findUsedAndUnused(SortedRangesOf(scr)))

(***************************************************************************)
(* Inputs of the decomposition: arrays sorted as computeWaste sorts them.  *)
(***************************************************************************)
Offsets == 0..MaxOffset

\* The protocol ranges of the model: endOffset > startOffset, executed or not.
WellFormedRaw ==
    {r \in [startOffset : Offsets, endOffset : Offsets, count : {0, 1}] :
        r.endOffset > r.startOffset}

RangePool == {MakeRange(r) : r \in WellFormedRaw}

\* rs is ordered as ranges.sort leaves an array: no neighbour compares greater.
IsSorted(rs) == \A i \in 1..(Len(rs) - 1) : CompareRanges(rs[i], rs[i + 1]) <= 0

\* The spans [startOffset, endOffset) of the model, without a count.
Spans == {sp \in [startOffset : Offsets, endOffset : Offsets] :
             sp.endOffset > sp.startOffset}

\* The sorted arrays of n ranges: sorted spans, each with either count.
SortedInputs(n) ==
    {[i \in 1..n |-> MakeRange(RawRange(in[1][i].startOffset, in[1][i].endOffset,
                                        in[2][i]))] :
        in \in {sp \in [1..n -> Spans] : IsSorted(sp)} \X [1..n -> {0, 1}]}

NoScript == [url |-> "none", functions |-> <<>>]
NoRecord == [url |-> "none", transferSize |-> 0]
NoWaste == [url |-> "none"]

\* A direct call of findUsedAndUnused on a sorted array, as the unit tests make.
InitDecompose ==
    /\ pc = "call"
    /\ \E n \in 0..MaxLen : ranges \in SortedInputs(n)
    /\ results = Zero
    /\ script = NoScript
    /\ networkRecord = NoRecord
    /\ waste = NoWaste
    /\ JsUsage = <<>>
    /\ networkRecords = <<>>
    /\ index = 0
    /\ resultsMap = <<>>
    /\ auditResults = <<>>

FindUsedAndUnused ==
    /\ pc = "call"
    /\ results' = findUsedAndUnused(ranges)
    /\ pc' = "return"
    /\ UNCHANGED <<ranges, script, networkRecord, waste, JsUsage, networkRecords,
                   index, resultsMap, auditResults>>

NextDecompose == FindUsedAndUnused

SpecDecompose == InitDecompose /\ [][NextDecompose]_vars

(***************************************************************************)
(* Inputs of computeWaste: scripts as the unit tests' generateScript       *)
(* builds them (one range per function, in any order), functions without   *)
(* ranges, the script of the #computeWaste tests, scripts of two functions *)
(* with several ranges each, and scripts with a range whose endOffset lies *)
(* before its startOffset.                                                 *)
(***************************************************************************)
Url(host, path) == [host |-> host, path |-> path]

generateScript(path, rawRanges) ==
    [url |-> Url("google.com", path),
     functions |-> [i \in DOMAIN rawRanges |-> [ranges |-> <<rawRanges[i]>>]]]

scriptUsage ==
    generateScript("/myscript.js",
        <<RawRange(0, 100, 1),
          RawRange(0, 10, 1), RawRange(0, 40, 1), RawRange(20, 40, 0),
          RawRange(60, 100, 0), RawRange(70, 80, 0),
          RawRange(100, 150, 0), RawRange(180, 200, 0), RawRange(100, 200, 1)>>)

FunctionPool ==
    {[ranges |-> <<>>]} \cup {[ranges |-> <<r>>] : r \in WellFormedRaw}

\* The ranges of the functions that have several ranges.
BlockRaw == {r \in WellFormedRaw : r.endOffset <= 2}

\* Functions of up to MaxRanges ranges, in any order.
BlockFunctions ==
    {[ranges |-> rs] : rs \in UNION {[1..n -> BlockRaw] : n \in 0..MaxRanges}}

\* Protocol ranges that end before they start.
MalformedRaw ==
    {r \in [startOffset : Offsets, endOffset : Offsets, count : {0, 1}] :
        r.endOffset < r.startOffset}

HasMalformedRange(scr) ==
    \E i \in DOMAIN scr.functions : \E j \in DOMAIN scr.functions[i].ranges :
        scr.functions[i].ranges[j].endOffset < scr.functions[i].ranges[j].startOffset

\* One-range functions, the range well-formed or not.
AnyRangeFunctions == {[ranges |-> <<r>>] : r \in WellFormedRaw \cup MalformedRaw}

TransferSizes == {0, 3, 1000}

InitWaste ==
    /\ pc = "call"
    /\ \/ \E n \in 0..MaxFunctions : \E fs \in [1..n -> FunctionPool] :
             script = [url |-> Url("google.com", "/myscript.js"), functions |-> fs]
       \/ script = scriptUsage
       \/ \E fs \in [1..2 -> BlockFunctions] :
             script = [url |-> Url("google.com", "/myscript.js"), functions |-> fs]
       \/ \E n \in 1..2 : \E fs \in [1..n -> AnyRangeFunctions] :
             /\ script = [url |-> Url("google.com", "/myscript.js"), functions |-> fs]
             /\ HasMalformedRange(script)
    /\ ranges = <<>>
    /\ results = Zero
    /\ networkRecord = NoRecord
    /\ waste = NoWaste
    /\ JsUsage = <<>>
    /\ networkRecords = <<>>
    /\ index = 0
    /\ resultsMap = <<>>
    /\ auditResults = <<>>

\* One call computeWaste(script, {transferSize}); ranges and results keep the
\* sorted array and the decomposition the call worked with.
ComputeWaste ==
    /\ pc = "call"
    /\ ranges' = SortedRangesOf(script)
    /\ results' = findUsedAndUnused(ranges')
    /\ \E transferSize \in TransferSizes :
          /\ networkRecord' = [url |-> script.url, transferSize |-> transferSize]
          /\ waste' = WasteOf(script, networkRecord', results')
    /\ pc' = "return"
    /\ UNCHANGED <<script, JsUsage, networkRecords, index, resultsMap, auditResults>>

NextWaste == ComputeWaste

SpecWaste == InitWaste /\ [][NextWaste]_vars

(***************************************************************************)
(* audit_.                                                                 *)
(***************************************************************************)
\* Mutant of MatchingRecords: records are matched by display name.
MatchingRecordsByName(records, url) ==
    {i \in DOMAIN records : getDisplayName(records[i].url) = getDisplayName(url)}

\* The positions of the records with record.url === url.
MatchingRecords(records, url) == {i \in DOMAIN records : records[i].url = url}

HasRecord(records, url) == MatchingRecords(records, url) # {}

\* networkRecords.find(record => record.url === script.url), when there is one.
FindRecord(records, url) ==
    LET found == MatchingRecords(records, url)
    IN  records[CHOOSE i \in found : \A j \in found : i <= j]

\* The Map is the sequence of its values in insertion order; each value is
\* stored under its own url field.
MapHas(map, key) == \E i \in DOMAIN map : map[i].url = key
MapGet(map, key) == map[CHOOSE i \in DOMAIN map : map[i].url = key]
MapSet(map, key, value) ==
    IF MapHas(map, key)
    THEN [i \in DOMAIN map |-> IF map[i].url = key THEN value ELSE map[i]]
    ELSE Append(map, value)

\* !existing || existing.wastedBytes > result.wastedBytes
ReplacesExisting(map, result) ==
    \/ ~MapHas(map, result.url)
    \/ JsGreater(MapGet(map, result.url).wastedBytes, result.wastedBytes)

\* The reduce callback for a script that has a network record.
JoinScript(map, scr, records) ==
    LET result == computeWaste(scr, FindRecord(records, scr.url))
    IN  IF ReplacesExisting(map, result) THEN MapSet(map, result.url, result)
        ELSE map

\* The reduce callback.
ReduceCallback(map, scr, records) ==
    IF ~HasRecord(records, scr.url) THEN map ELSE JoinScript(map, scr, records)

\* Mutant of ExceedsThreshold: a result at the threshold is kept.
ReachesThreshold(item) ==
    ~JsGreater(JsInt(IGNORE_THRESHOLD_IN_BYTES), item.wastedBytes)

\* item.wastedBytes > IGNORE_THRESHOLD_IN_BYTES
ExceedsThreshold(item) ==
    JsGreater(item.wastedBytes, JsInt(IGNORE_THRESHOLD_IN_BYTES))

\* Array.from(resultsMap.values()).filter(...)
RECURSIVE FilterResults(_)
FilterResults(values) ==
    IF Len(values) = 0 THEN <<>>
    ELSE IF ExceedsThreshold(Head(values))
         THEN <<Head(values)>> \o FilterResults(Tail(values))
         ELSE FilterResults(Tail(values))

\* The Map after the reduce over the first n scripts.
RECURSIVE ReduceScripts(_, _, _)
ReduceScripts(scripts, records, n) ==
    IF n = 0 THEN <<>>
    ELSE ReduceCallback(ReduceScripts(scripts, records, n - 1), scripts[n], records)

\* The results array of audit_({JsUsage: scripts}, records).
audit_(scripts, records) ==
    FilterResults(ReduceScripts(scripts, records, Len(scripts)))

(***************************************************************************)
(* Inputs of audit_: scriptB and scriptBDuplicate of the audit_ unit test  *)
(* (half unused, all unused) under three URLs, two of which differ in the  *)
(* host only, and records whose transfer sizes put the waste of scriptB at *)
(* the threshold and one byte above it.                                    *)
(***************************************************************************)
AuditUrls == {Url("a.com", "/app.js"), Url("b.com", "/app.js"), Url("a.com", "/lib.js")}

AuditFunctions ==
    {generateScript("", <<RawRange(0, 100, 1), RawRange(0, 50, 0)>>).functions,
     generateScript("", <<RawRange(0, 100, 0)>>).functions}

AuditScripts == [url : AuditUrls, functions : AuditFunctions]

AuditTransferSizes == {4096, 4098}

AuditRecords == [url : AuditUrls, transferSize : AuditTransferSizes]

InitAudit ==
    /\ pc = "reduce"
    /\ \E n \in 0..MaxScripts : JsUsage \in [1..n -> AuditScripts]
    /\ \E n \in 0..MaxRecords : networkRecords \in [1..n -> AuditRecords]
    /\ index = 1
    /\ resultsMap = <<>>
    /\ auditResults = <<>>
    /\ ranges = <<>>
    /\ results = Zero
    /\ script = NoScript
    /\ networkRecord = NoRecord
    /\ waste = NoWaste

\* The reduce callback on a script without a network record: return results.
AuditSkipScript ==
    /\ pc = "reduce"
    /\ index <= Len(JsUsage)
    /\ ~HasRecord(networkRecords, JsUsage[index].url)
    /\ index' = index + 1
    /\ UNCHANGED <<pc, ranges, results, script, networkRecord, waste, JsUsage,
                   networkRecords, resultsMap, auditResults>>

\* The reduce callback on a script with a network record.
AuditJoinScript ==
    /\ pc = "reduce"
    /\ index <= Len(JsUsage)
    /\ HasRecord(networkRecords, JsUsage[index].url)
    /\ resultsMap' = JoinScript(resultsMap, JsUsage[index], networkRecords)
    /\ index' = index + 1
    /\ UNCHANGED <<pc, ranges, results, script, networkRecord, waste, JsUsage,
                   networkRecords, auditResults>>

\* After the reduce: filter the Map's values and return.
AuditReturn ==
    /\ pc = "reduce"
    /\ index > Len(JsUsage)
    /\ auditResults' = FilterResults(resultsMap)
    /\ pc' = "done"
    /\ UNCHANGED <<ranges, results, script, networkRecord, waste, JsUsage,
                   networkRecords, index, resultsMap>>

NextAudit == AuditSkipScript \/ AuditJoinScript \/ AuditReturn

SpecAudit == InitAudit /\ [][NextAudit]_vars

(***************************************************************************)
(* Vocabulary of the properties.                                           *)
(***************************************************************************)
\* The set of the elements of the sequence q.
Range(q) == {q[i] : i \in DOMAIN q}

MinOf(S) == CHOOSE x \in S : \A y \in S : x <= y
MaxOf(S) == CHOOSE x \in S : \A y \in S : x >= y

\* The sum of f[x] over the x in S.
RECURSIVE SumOver(_, _)
SumOver(S, f) ==
    IF S = {} THEN 0
    ELSE LET x == CHOOSE y \in S : TRUE IN f[x] + SumOver(S \ {x}, f)

Returned == pc = "return"

\* Any two ranges are disjoint or one lies within the other.
Laminar(rs) ==
    \A i \in 1..Len(rs) : \A j \in (i + 1)..Len(rs) :
        \/ rs[j].startOffset >= rs[i].endOffset
        \/ rs[j].endOffset <= rs[i].endOffset

\* The ranges before i that rs[i] starts inside of.
Ancestors(rs, i) == {j \in 1..(i - 1) : rs[j].endOffset > rs[i].startOffset}

TopLevel(rs) == {i \in 1..Len(rs) : Ancestors(rs, i) = {}}

\* The offsets k whose byte [k, k+1) lies in one of the ranges at the indices I.
CoveredBy(rs, I) ==
    UNION {rs[i].startOffset..(rs[i].endOffset - 1) : i \in I}

TopLevelUnionLength(rs) == Cardinality(CoveredBy(rs, TopLevel(rs)))

HasChildren(rs, i) == i < Len(rs) /\ rs[i + 1].startOffset < rs[i].endOffset

\* The ranges after i that start at or after its end.
Followers(rs, i) == {k \in (i + 1)..Len(rs) : rs[k].startOffset >= rs[i].endOffset}

\* i is an unused range with nested children, under used ranges only, whose
\* next sibling lies under the same parent.
SkipsGap(rs, i) ==
    /\ ~rs[i].isUsed
    /\ HasChildren(rs, i)
    /\ \A j \in Ancestors(rs, i) : rs[j].isUsed
    /\ Followers(rs, i) # {}
    /\ \/ Ancestors(rs, i) = {}
       \/ rs[MinOf(Followers(rs, i))].startOffset
             < rs[MaxOf(Ancestors(rs, i))].endOffset

SkippedGap(rs, i) == rs[MinOf(Followers(rs, i))].startOffset - rs[i].endOffset

SkippedGaps(rs) ==
    LET skipping == {i \in 1..Len(rs) : SkipsGap(rs, i)}
    IN  SumOver(skipping, [i \in skipping |-> SkippedGap(rs, i)])

\* From the first start to the end of the last top-level range.
Extent(rs) ==
    IF Len(rs) = 0 THEN 0
    ELSE rs[MaxOf(TopLevel(rs))].endOffset - rs[1].startOffset

Total(r) == r.used + r.unused

(***************************************************************************)
(* C1 (as stated): used + unused of the returned pair equals the union     *)
(* length of the top-level spans of the sorted sequence.                   *)
(***************************************************************************)
C1_TotalIsTopLevelUnion ==
    Returned => Total(results) = TopLevelUnionLength(ranges)

(***************************************************************************)
(* C1 (amended): for a sorted sequence in which any two ranges are         *)
(* disjoint or nested, used + unused equals the distance from the first    *)
(* start to the end of the last top-level range (the top-level spans and   *)
(* the gaps between them), less the gap that follows each unused range     *)
(* with nested children up to its next sibling; no byte is counted twice.  *)
(***************************************************************************)
C1_TotalIsExtentLessSkippedGaps ==
    (Returned /\ Laminar(ranges)) =>
        /\ Total(results) = Extent(ranges) - SkippedGaps(ranges)
        /\ Total(results) <= Extent(ranges)

\* C1 witness: a nested sequence with a gap between two top-level ranges.
C1_Witness ==
    /\ Returned
    /\ Laminar(ranges)
    /\ Len(ranges) = 4
    /\ Cardinality(TopLevel(ranges)) = 2
    /\ \E i \in 1..Len(ranges) :
           /\ Cardinality(Ancestors(ranges, i)) = 2
           /\ \A j \in Ancestors(ranges, i) : ranges[j].isUsed
    /\ Extent(ranges) > TopLevelUnionLength(ranges)
    /\ Total(results) = Extent(ranges)

\* r lies within p and is shorter: a proper sub-range.
ProperlyInside(r, p) ==
    /\ p.startOffset <= r.startOffset
    /\ r.endOffset <= p.endOffset
    /\ r.span < p.span

\* Any two ranges are disjoint or one is a proper sub-range of the other.
ProperlyNested(rs) ==
    \A i \in 1..Len(rs) : \A j \in (i + 1)..Len(rs) :
        \/ rs[j].startOffset >= rs[i].endOffset
        \/ ProperlyInside(rs[j], rs[i])

\* One used range followed by ranges properly nested inside it.
UsedParentWithNested(rs) ==
    /\ Len(rs) >= 1
    /\ rs[1].isUsed
    /\ ProperlyNested(rs)
    /\ \A i \in 2..Len(rs) : ProperlyInside(rs[i], rs[1])

\* The number of bytes covered by an unused range nested in rs[1].
UnusedNestedLength(rs) ==
    Cardinality(CoveredBy(rs, {i \in 2..Len(rs) : ~rs[i].isUsed}))

(***************************************************************************)
(* C2: for one used range followed by ranges properly nested inside it,    *)
(* unused is the length covered by the unused nested ranges and used is    *)
(* the parent's span less that length.                                     *)
(***************************************************************************)
C2_UsedParentCarvesUnused ==
    (Returned /\ UsedParentWithNested(ranges)) =>
        /\ results.unused = UnusedNestedLength(ranges)
        /\ results.used = ranges[1].span - UnusedNestedLength(ranges)

\* No range starts before the end of the one before it.
Flat(rs) == \A i \in 1..(Len(rs) - 1) : rs[i + 1].startOffset >= rs[i].endOffset

SumUsed(rs) == SumOver(DOMAIN rs, [i \in DOMAIN rs |-> rs[i].used])
SumUnused(rs) == SumOver(DOMAIN rs, [i \in DOMAIN rs |-> rs[i].unused])
SumGaps(rs) ==
    SumOver(1..(Len(rs) - 1),
            [i \in 1..(Len(rs) - 1) |-> rs[i + 1].startOffset - rs[i].endOffset])

(***************************************************************************)
(* C3: for a sorted sequence in which no range nests in another (the empty *)
(* and the one-element sequence included), used is the sum of the          *)
(* elements' used values plus the gaps between consecutive ranges, and     *)
(* unused is the sum of the elements' unused values.                       *)
(***************************************************************************)
C3_FlatSequenceSums ==
    (Returned /\ Flat(ranges)) =>
        /\ results.used = SumUsed(ranges) + SumGaps(ranges)
        /\ results.unused = SumUnused(ranges)
        /\ (Len(ranges) = 0 => results = Zero)
        /\ (Len(ranges) = 1 =>
               results = [used |-> ranges[1].used, unused |-> ranges[1].unused])

\* C3 witness: three disjoint ranges, used and unused, with a gap.
C3_Witness ==
    /\ Returned
    /\ Flat(ranges)
    /\ Len(ranges) = 3
    /\ SumGaps(ranges) > 0
    /\ SumUsed(ranges) > 0
    /\ SumUnused(ranges) > 0
    /\ results.used = SumUsed(ranges) + SumGaps(ranges)

\* The first range is unused and the second starts inside it.
UnusedParentWithChildren(rs) ==
    /\ Len(rs) >= 2
    /\ ~rs[1].isUsed
    /\ rs[2].startOffset < rs[1].endOffset

\* The ranges after the nested run of rs[1].
AfterNestedRun(rs) ==
    LET after == {i \in 2..Len(rs) : rs[i].startOffset >= rs[1].endOffset}
    IN  IF after = {} THEN <<>> ELSE SubSeq(rs, MinOf(after), Len(rs))

\* The range with the opposite execution count.
Flipped(r) == MakeRange(RawRange(r.startOffset, r.endOffset, 1 - r.count))

\* The nested run of rs[1]: the ranges between it and AfterNestedRun(rs).
NestedRun(rs) == SubSeq(rs, 2, Len(rs) - Len(AfterNestedRun(rs)))

\* Other nested runs that can follow rs[1] in a sorted array: every single
\* child, and the children of rs with their isUsed flags inverted.
AltChildren(rs) ==
    {<<q>> : q \in {r \in RangePool : /\ r.startOffset < rs[1].endOffset
                                       /\ CompareRanges(rs[1], r) <= 0}}
    \cup {[i \in DOMAIN NestedRun(rs) |-> Flipped(NestedRun(rs)[i])]}

(***************************************************************************)
(* C4: when the first range is unused and has nested children, it and its  *)
(* children contribute exactly {used: 0, unused: its span}; the result is  *)
(* the same for every choice of the children while the ranges after the    *)
(* nested run stay the same.                                               *)
(***************************************************************************)
C4_UnusedParentHidesChildren ==
    (Returned /\ UnusedParentWithChildren(ranges)) =>
        LET rest == findUsedAndUnused(AfterNestedRun(ranges))
        IN  /\ results = [used |-> rest.used,
                          unused |-> ranges[1].span + rest.unused]
            /\ \A c \in AltChildren(ranges) :
                  findUsedAndUnused(<<ranges[1]>> \o c \o AfterNestedRun(ranges))
                      = results

\* C4 witness: an unused parent with a used child and a range after the run.
C4_Witness ==
    /\ Returned
    /\ UnusedParentWithChildren(ranges)
    /\ ranges[2].isUsed
    /\ Len(AfterNestedRun(ranges)) >= 1
    /\ results.unused >= ranges[1].span
    /\ \E c \in AltChildren(ranges) : Len(c) # Len(NestedRun(ranges))

(***************************************************************************)
(* C13: the gap between a range and its next sibling (the next range that  *)
(* starts at or after its endOffset) is counted entirely as used, whether  *)
(* the range is used or not and whether or not it has nested children:     *)
(* the result is what the first range with its nested run contributes,     *)
(* plus the gap as used bytes, plus the decomposition from the sibling on. *)
(***************************************************************************)
C13_GapToNextSiblingIsUsed ==
    (Returned /\ Laminar(ranges) /\ Len(AfterNestedRun(ranges)) > 0) =>
        LET after == AfterNestedRun(ranges)
            family == SubSeq(ranges, 1, Len(ranges) - Len(after))
        IN  results = _add(_add(findUsedAndUnused(family), Gap(ranges[1], after[1])),
                           findUsedAndUnused(after))

(***************************************************************************)
(* C16: for a sorted sequence of well-formed ranges in which any two       *)
(* ranges are disjoint or one contains the other, the returned used and    *)
(* unused are >= 0, and so is every gap, leftEdge and rightEdge value the  *)
(* decomposition adds.                                                     *)
(***************************************************************************)
C16_NothingNegative ==
    (Returned /\ Laminar(ranges)) =>
        /\ results.used >= 0
        /\ results.unused >= 0
        /\ \A edge \in EdgesAdded(ranges) : edge >= 0

\* C16 witness: a used parent with two nested children and a sibling after a
\* gap, so that a leftEdge, a rightEdge and a gap are all added.
C16_Witness ==
    /\ Returned
    /\ Laminar(ranges)
    /\ Len(ranges) = 4
    /\ ranges[1].isUsed
    /\ Len(NestedRun(ranges)) = 2
    /\ Len(AfterNestedRun(ranges)) = 1
    /\ \E edge \in EdgesAdded(ranges) : edge > 0
    /\ results.unused > 0
    /\ results.used > 0

(***************************************************************************)
(***************************************************************************)
(* C17: findUsedAndUnused terminates: every recursive call gets a strictly *)
(* shorter sequence than its caller, so no call lies deeper than the       *)
(* length of the sequence, and in the nested case the run of spanning      *)
(* children is not empty, so the maximum over it is defined.               *)
(***************************************************************************)
C17_RecursionDescends ==
    /\ \A d \in 0..Len(ranges) : \A c \in CallsAtDepth(ranges, d) :
          /\ \A arg \in RecursiveCalls(c) : Len(arg) < Len(c)
          /\ NestedCase(c) =>
                /\ Len(SpanningRanges(c)) >= 1
                /\ LatestEnd(SpanningRanges(c)) \in Range(SpanningRanges(c))
    /\ CallsAtDepth(ranges, Len(ranges) + 1) = {}
    /\ Returned => results = findUsedAndUnused(ranges)

\* C17 witness: four ranges nested one inside the other have been decomposed
\* by calls three levels deep.
C17_Witness ==
    /\ Returned
    /\ Len(ranges) = 4
    /\ \A i \in 1..3 : ranges[i].isUsed /\ ProperlyInside(ranges[i + 1], ranges[i])
    /\ CallsAtDepth(ranges, 3) # {}
    /\ \E c \in CallsAtDepth(ranges, 3) : Len(c) = 1
    /\ results.used = ranges[1].span

(***************************************************************************)
(* Properties of computeWaste.                                             *)
(***************************************************************************)
\* How often x occurs in the sequence q.
Occurrences(q, x) == Cardinality({i \in DOMAIN q : q[i] = x})

IsPermutation(a, b) ==
    /\ Len(a) = Len(b)
    /\ \A i \in DOMAIN a : Occurrences(a, a[i]) = Occurrences(b, a[i])

\* a <= b on numbers, false when either side is NaN.
JsLessEq(a, b) == ~IsNaN(a) /\ ~IsNaN(b) /\ ~JsGreater(a, b)

\* The integer w is a nearest integer to n / d (d # 0).
IsNearest(w, n, d) == 2 * Abs(w * d - n) <= Abs(d)

(***************************************************************************)
(* C5: computeWaste returns totalBytes = transferSize, wastedPercent =     *)
(* 100 * unused / (used + unused) and wastedBytes = totalBytes * unused /  *)
(* (used + unused) rounded to the nearest integer, {used, unused} being    *)
(* the decomposition of the script's ranges sorted by startOffset          *)
(* ascending, then endOffset descending; the script of the unit tests      *)
(* (35% used, 65% unused, transferSize 1000) gives 65 and 650.             *)
(***************************************************************************)
C5_WasteFromDecomposition ==
    Returned =>
        LET total == results.used + results.unused
            flat == FlattenFunctions(script.functions)
        IN  /\ waste.totalBytes = networkRecord.transferSize
            /\ IsPermutation(ranges, flat)
            /\ \A i \in 1..(Len(ranges) - 1) :
                  \/ ranges[i].startOffset < ranges[i + 1].startOffset
                  \/ /\ ranges[i].startOffset = ranges[i + 1].startOffset
                     /\ ranges[i].endOffset >= ranges[i + 1].endOffset
            /\ total # 0 =>
                  /\ IsFinite(waste.wastedPercent)
                  /\ waste.wastedPercent.num * total
                        = 100 * results.unused * waste.wastedPercent.den
                  /\ waste.wastedBytes.den = 1
                  /\ IsNearest(waste.wastedBytes.num,
                               waste.totalBytes * results.unused, total)
            /\ (script = scriptUsage /\ waste.totalBytes = 1000) =>
                  /\ results = [used |-> 70, unused |-> 130]
                  /\ waste.wastedPercent = JsInt(65)
                  /\ waste.wastedBytes = JsInt(650)

\* C5 witness: the unit tests' script with transferSize 1000 gives 65 and 650.
C5_Witness ==
    /\ Returned
    /\ script = scriptUsage
    /\ ~IsSorted(FlattenFunctions(script.functions))
    /\ networkRecord.transferSize = 1000
    /\ waste.wastedPercent = JsInt(65)
    /\ waste.wastedBytes = JsInt(650)

(***************************************************************************)
(* C6: for any script of well-formed ranges (nested children may extend    *)
(* beyond their parent's endOffset) and any transferSize >= 0, the result  *)
(* has wastedBytes <= totalBytes and 0 <= wastedPercent <= 100.            *)
(***************************************************************************)
C6_WasteWithinBounds ==
    (Returned /\ ~HasMalformedRange(script)) =>
        /\ JsLessEq(waste.wastedBytes, JsInt(waste.totalBytes))
        /\ JsLessEq(JsInt(0), waste.wastedPercent)
        /\ JsLessEq(waste.wastedPercent, JsInt(100))

(***************************************************************************)
(* C10: when the decomposition totals zero bytes (used + unused = 0),      *)
(* computeWaste returns wastedPercent = 0 and wastedBytes = 0 for every    *)
(* transferSize, never NaN or Infinity.                                    *)
(***************************************************************************)
C10_ZeroTotalIsZeroWaste ==
    (Returned /\ ~HasMalformedRange(script) /\ results.used + results.unused = 0) =>
        /\ waste.wastedPercent = JsInt(0)
        /\ waste.wastedBytes = JsInt(0)

\* The functions of scr none of whose ranges was executed.
UnusedFunctions(scr) ==
    {i \in DOMAIN scr.functions :
        \A j \in DOMAIN scr.functions[i].ranges : scr.functions[i].ranges[j].count = 0}

(***************************************************************************)
(* C11: numUnused is the number of functions of the script that have no    *)
(* range with count > 0, a function without ranges included, whatever the  *)
(* nesting and the decomposition; so 0 <= numUnused <= number of           *)
(* functions.  The script of the unit tests has 5.                         *)
(***************************************************************************)
C11_NumUnusedCountsFunctions ==
    Returned =>
        /\ waste.numUnused = Cardinality(UnusedFunctions(script))
        /\ 0 <= waste.numUnused
        /\ waste.numUnused <= Len(script.functions)
        /\ script = scriptUsage => waste.numUnused = 5

\* C11 witness: a function without ranges is counted, a function whose second
\* range only was executed is not.
C11_Witness ==
    /\ Returned
    /\ Len(script.functions) = 2
    /\ script.functions[1].ranges = <<>>
    /\ Len(script.functions[2].ranges) = 2
    /\ script.functions[2].ranges[1].count = 0
    /\ script.functions[2].ranges[2].count = 1
    /\ waste.numUnused = 1

\* The sequence q with its elements at i and j exchanged.
Swap(q, i, j) ==
    [k \in DOMAIN q |-> IF k = i THEN q[j] ELSE IF k = j THEN q[i] ELSE q[k]]

\* The scripts that list the functions of scr, or the ranges of one of its
\* functions, with two entries exchanged.
Reordered(scr) ==
    {[scr EXCEPT !.functions = Swap(scr.functions, i, j)] :
        i, j \in DOMAIN scr.functions}
    \cup UNION {{[scr EXCEPT !.functions[f].ranges = Swap(scr.functions[f].ranges, i, j)] :
                    i, j \in DOMAIN scr.functions[f].ranges} :
                f \in DOMAIN scr.functions}

(***************************************************************************)
(* C15: computeWaste does not depend on the order in which the script      *)
(* lists its functions or a function lists its ranges: with two of them    *)
(* exchanged (ranges of equal offsets and different counts included) the   *)
(* returned wastedPercent, wastedBytes, totalBytes and numUnused are the   *)
(* same.                                                                   *)
(***************************************************************************)
C15_OrderOfFunctionsIrrelevant ==
    (Returned /\ ~HasMalformedRange(script)) =>
        \A other \in Reordered(script) :
            computeWaste(other, networkRecord) = waste

(***************************************************************************)
(* C12: when the script has a range with endOffset < startOffset,          *)
(* computeWaste throws an InvalidRangeError instead of returning a result. *)
(***************************************************************************)
C12_MalformedRangeThrows ==
    (pc # "call" /\ HasMalformedRange(script)) => pc = "throw"

(***************************************************************************)
(* Properties of audit_.                                                   *)
(***************************************************************************)
Done == pc = "done"

\* Some network record has exactly the url of JsUsage[i].
Matched(i) == \E j \in DOMAIN networkRecords : networkRecords[j].url = JsUsage[i].url

\* The scripts of JsUsage that audit_ joins with a network record.
Joined == {i \in DOMAIN JsUsage : Matched(i)}

JoinedUrls == {JsUsage[i].url : i \in Joined}

\* wastedBytes of the sample JsUsage[i] with the first record of its url.
SampleWaste(i) ==
    LET first == CHOOSE j \in DOMAIN networkRecords :
                     /\ networkRecords[j].url = JsUsage[i].url
                     /\ \A k \in 1..(j - 1) : networkRecords[k].url # JsUsage[i].url
    IN  computeWaste(JsUsage[i], networkRecords[first]).wastedBytes

\* w is the least wastedBytes among the samples of url u.
IsMinimalWaste(w, u) ==
    LET samples == {i \in Joined : JsUsage[i].url = u}
    IN  /\ \E i \in samples : SampleWaste(i) = w
        /\ \A i \in samples : ~JsGreater(w, SampleWaste(i))

InResults(item) == \E k \in DOMAIN auditResults : auditResults[k] = item

(***************************************************************************)
(* C8: every result audit_ returns has wastedBytes strictly greater than   *)
(* the ignore threshold 2048; a result of the Map with wastedBytes exactly *)
(* 2048 is excluded and one with 2049 is included.                         *)
(***************************************************************************)
C8_OnlyAboveThreshold ==
    Done =>
        /\ \A k \in DOMAIN auditResults :
              /\ ~IsNaN(auditResults[k].wastedBytes)
              /\ auditResults[k].wastedBytes.num > 2048 * auditResults[k].wastedBytes.den
              /\ \E m \in DOMAIN resultsMap : resultsMap[m] = auditResults[k]
        /\ \A m \in DOMAIN resultsMap :
              /\ resultsMap[m].wastedBytes = JsInt(2048) => ~InResults(resultsMap[m])
              /\ resultsMap[m].wastedBytes = JsInt(2049) => InResults(resultsMap[m])

\* C8 witness: one candidate at 2048 is dropped, one at 2049 is returned.
C8_Witness ==
    /\ Done
    /\ \E m \in DOMAIN resultsMap :
          resultsMap[m].wastedBytes = JsInt(2048) /\ ~InResults(resultsMap[m])
    /\ \E m \in DOMAIN resultsMap :
          resultsMap[m].wastedBytes = JsInt(2049) /\ InResults(resultsMap[m])

\* The sequence q without its element at position i.
RemoveAt(q, i) == SubSeq(q, 1, i - 1) \o SubSeq(q, i + 1, Len(q))

(***************************************************************************)
(* C9: a script for which no network record has exactly the same url does  *)
(* not show in the output: the output equals the output for the input list *)
(* with that script removed, and is empty when no script has a record.     *)
(***************************************************************************)
C9_UnmatchedScriptIgnored ==
    Done =>
        /\ \A i \in DOMAIN JsUsage :
              ~Matched(i) => auditResults = audit_(RemoveAt(JsUsage, i), networkRecords)
        /\ Joined = {} => auditResults = <<>>

\* C9 witness: a script without a record whose display name is that of a
\* returned result of another script.
C9_Witness ==
    /\ Done
    /\ Len(JsUsage) = 3
    /\ \E i \in DOMAIN JsUsage :
          /\ ~Matched(i)
          /\ MapHas(resultsMap, getDisplayName(JsUsage[i].url))
          /\ InResults(MapGet(resultsMap, getDisplayName(JsUsage[i].url)))
    /\ Len(auditResults) = 2

\* The joined samples of url u.
SamplesOf(u) == {i \in Joined : JsUsage[i].url = u}

\* Some returned result is the result computed for a sample of url u.
Appears(u) ==
    \E k \in DOMAIN auditResults : \E i \in SamplesOf(u) :
        auditResults[k] = computeWaste(JsUsage[i], FindRecord(networkRecords, u))

=============================================================================
